---- MODULE Spec2Model ----
(***************************************************************************)
(* Social Media API Service (src/main.py): the API-key gate, the lazy      *)
(* per-platform session managers, the pacing helper and the route          *)
(* handlers, as a state machine over the asyncio event loop.               *)
(*                                                                         *)
(* Time is counted in whole seconds of time.time().  A request occupies a  *)
(* slot; `running` is the request that holds the event-loop thread (0 when *)
(* the loop is free, i.e. every coroutine is parked at an await).  A       *)
(* synchronous handler (all Instagram handlers) keeps the loop from its    *)
(* first statement to its response, time.sleep included.                   *)
(***************************************************************************)
EXTENDS Integers, Sequences, FiniteSets, TLC

\* ---------------------------------------------------------------- bounds
NumSlots == 2
MaxRequests == 2
Horizon == 3
StartTime == 10
MaxIdLen == 2

\* ------------------------------------------------------ program constants
MIN_REQUEST_DELAY == 1
MAX_REQUEST_DELAY == 3

None == "<None>"
NoHandle == <<>>

Slots == 1..NumSlots

\* Python truthiness of an Optional[str]
Truthy(s) == s # None /\ s # ""

VARIABLES
    API_KEY, MS_TOKEN, INSTAGRAM_SESSION_ID, INSTAGRAM_USERNAME,
    INSTAGRAM_PASSWORD, INSTAGRAM_PROXY, ENABLE_ANTI_DETECTION,
    now,
    last_tiktok_request_time, last_instagram_request_time,
    tiktok_api, tiktok_session_initialized, tiktok_session_error,
    tiktok_sessions,
    instagram_client, instagram_session_initialized, instagram_session_error,
    session_file,
    req, running, started, ensure_done,
    parser, payload, record

config == <<API_KEY, MS_TOKEN, INSTAGRAM_SESSION_ID, INSTAGRAM_USERNAME,
            INSTAGRAM_PASSWORD, INSTAGRAM_PROXY, ENABLE_ANTI_DETECTION>>
pacing == <<last_tiktok_request_time, last_instagram_request_time>>
tiktok == <<tiktok_api, tiktok_session_initialized, tiktok_session_error,
           tiktok_sessions>>
instagram == <<instagram_client, instagram_session_initialized,
               instagram_session_error, session_file>>
norm == <<parser, payload, record>>
vars == <<config, now, pacing, tiktok, instagram, req, running, started,
          ensure_done, norm>>

\* ------------------------------------------------------------- requests
TikTokVideoReads == {"tiktok_video", "tiktok_video_url"}
TikTokEndpoints == {"tiktok_init"} \cup TikTokVideoReads
InstagramLookups == {"instagram_post", "instagram_post_comments",
                     "instagram_post_likers"}
\* the reads that retrieve by primary call and fallback
InstagramReads == InstagramLookups \cup {"instagram_post_url",
                                         "instagram_user_posts",
                                         "instagram_user"}
InstagramEndpoints == {"instagram_init"} \cup InstagramReads
Endpoints == {"health"} \cup TikTokEndpoints \cup InstagramEndpoints

Platform(e) == IF e \in TikTokEndpoints THEN "tiktok"
               ELSE IF e \in InstagramEndpoints THEN "instagram" ELSE "none"

\* identifiers are strings over a digit and a letter
Chars == {"1", "a"}
Digits == {"1"}
RECURSIVE StringsUpTo(_)
StringsUpTo(n) ==
    IF n = 0 THEN {<<>>}
    ELSE LET S == StringsUpTo(n - 1)
         IN  S \cup {Append(s, c) : s \in {t \in S : Len(t) = n - 1}, c \in Chars}
MediaIds == StringsUpTo(MaxIdLen) \ {<<>>}
\* what media_pk_from_code can answer
ResolvedPks == {<<"1", "1", "1">>}

Headers == {None, "", "k1", "k2"}

\* the `url` of a VideoUrlRequest: one an item identifier can be extracted
\* from, one it cannot
WellFormedUrl == "https://host/item/1"
MalformedUrl == "not a url"
Urls == {WellFormedUrl, MalformedUrl}

NoPace == [start |-> 0, prev |-> 0, delay |-> 0, end |-> 0, over |-> 0]

IdleReq == [pc |-> "idle", endpoint |-> "health", serial |-> 0,
            api_key |-> None, status |-> 0, detail |-> <<>>,
            media_id |-> <<>>, pk |-> <<>>, ret |-> "", wake |-> 0,
            ensure |-> "none", after_prior |-> FALSE, nclients |-> 0,
            tiers |-> <<>>, resolver_calls |-> 0, resolved |-> <<>>,
            upstream |-> <<>>, url |-> "", steps |-> <<>>,
            pace |-> NoPace, body |-> <<>>, file_at_call |-> FALSE,
            on |-> NoHandle]

Finish(q, status, detail) ==
    [q EXCEPT !.pc = "done", !.status = status, !.detail = detail]

Free(r) == req[r].pc = "idle"

\* ------------------------------------------------------------------ Init
\* The environment the process starts in (.env and the saved session file).
\* One component's settings vary at a time around a fully configured base:
\* the anti-detection toggle, the TikTok token, the Instagram credentials and
\* session file, the proxy (with the password login as the only tier). The
\* disabled secrets (unset, empty) come with both platforms unconfigured:
\* what verify_api_key does never depends on the platform settings.
BaseConfig == [key |-> "k1", token |-> "tok", sid |-> "sid", user |-> "user",
               pw |-> "pw", file |-> TRUE, proxy |-> "http://proxy", anti |-> TRUE]
Unconfigured == [BaseConfig EXCEPT !.token = None, !.sid = None, !.user = None,
                                   !.pw = None, !.file = FALSE]
Configs ==
    {BaseConfig, [BaseConfig EXCEPT !.anti = FALSE]}
    \cup {[Unconfigured EXCEPT !.key = k] : k \in {None, ""}}
    \cup {[BaseConfig EXCEPT !.token = None]}
    \cup {[BaseConfig EXCEPT !.sid = s, !.user = up[1], !.pw = up[2], !.file = f] :
            s \in {None, "sid"},
            up \in {<<None, None>>, <<"user", None>>, <<"user", "pw">>},
            f \in BOOLEAN}
    \cup {[BaseConfig EXCEPT !.sid = None, !.file = FALSE, !.proxy = None]}

\* The saved session file (INSTAGRAM_SESSION_FILE): absent, the blob an
\* earlier process left, or the settings of the client that dumped them.
NoBlob == <<>>
SavedBlob == <<"saved">>

\* session_path.exists()
exists(file) == file # NoBlob

\* a login that succeeds without saving the client's settings
dump_settings_Skip(client, file) == file

\* instagram_client.dump_settings(session_path): the file is overwritten
\* wholesale with the client's settings
dump_settings(client, file) == <<"settings">> \o client

\* no normalizer is under test while the service runs
NoPayload == [none |-> TRUE]

\* a normalizer's result when it raises `exc`; no normalizer has been called
Raised(exc) == [raised |-> exc]
NotParsed == [out |-> Raised("not called"), at |-> 0]

Init ==
    /\ parser = "none"
    /\ payload = NoPayload
    /\ record = NotParsed
    /\ \E c \in Configs :
          /\ API_KEY = c.key
          /\ MS_TOKEN = c.token
          /\ INSTAGRAM_SESSION_ID = c.sid
          /\ INSTAGRAM_USERNAME = c.user
          /\ INSTAGRAM_PASSWORD = c.pw
          /\ INSTAGRAM_PROXY = c.proxy
          /\ session_file = IF c.file THEN SavedBlob ELSE NoBlob
          /\ ENABLE_ANTI_DETECTION = c.anti
    /\ now = StartTime
    /\ last_tiktok_request_time = 0
    /\ last_instagram_request_time = 0
    /\ tiktok_api = NoHandle
    /\ tiktok_sessions = {}
    /\ tiktok_session_initialized = FALSE
    /\ tiktok_session_error = None
    /\ instagram_client = NoHandle
    /\ instagram_session_initialized = FALSE
    /\ instagram_session_error = None
    /\ req = [r \in Slots |-> IdleReq]
    /\ running = 0
    /\ started = 0
    /\ ensure_done = {}

\* ----------------------------------------------------------------- clock
Tick ==
    /\ now < StartTime + Horizon
    /\ now' = now + 1
    /\ UNCHANGED <<config, norm, pacing, tiktok, instagram, req, running, started,
                   ensure_done>>

\* --------------------------------------------------------------- arrival
\* A request is routed to a handler; the lowest free slot takes it.  Its task
\* runs from here to its first await without giving up the loop: the key
\* dependency and the first statements of the handler do not suspend.
Arrive(r, e) ==
    /\ running = 0
    /\ started < MaxRequests
    /\ Free(r)
    /\ \A s \in Slots : s < r => ~Free(s)
    /\ req' = [req EXCEPT ![r] =
                 [IdleReq EXCEPT !.pc = "arrived", !.endpoint = e,
                                 !.serial = started + 1]]
    /\ started' = started + 1
    /\ running' = r
    /\ UNCHANGED <<config, norm, now, pacing, tiktok, instagram, ensure_done>>

\* ------------------------------------------------------------- key check
\* verify_api_key: 0 = returns True, otherwise the HTTP status raised
verify_api_key_NoneOnly(key, api_key) ==
    IF ~Truthy(key) THEN 0
    ELSE IF api_key = None THEN 401
    ELSE IF api_key # key THEN 403
    ELSE 0

verify_api_key(key, api_key) ==
    IF ~Truthy(key) THEN 0
    ELSE IF ~Truthy(api_key) THEN 401
    ELSE IF api_key # key THEN 403
    ELSE 0

KeyDetail(status) ==
    IF status = 401
    THEN <<"Missing API key. Please provide X-API-Key header.", "">>
    ELSE <<"Invalid API key.", "">>

\* The dependency of every protected route, run on the request's X-API-Key
\* header (None when the header is absent).
VerifyApiKey(r, api_key) ==
    /\ running = r
    /\ req[r].pc = "arrived"
    /\ req[r].endpoint # "health"
    /\ LET out == verify_api_key(API_KEY, api_key)
           q == [req[r] EXCEPT !.api_key = api_key]
       IN  IF out = 0
           THEN req' = [req EXCEPT ![r] = [q EXCEPT !.pc = "handler",
                                                   !.steps = <<"key">>]]
           ELSE req' = [req EXCEPT ![r] = Finish(q, out, KeyDetail(out))]
    /\ UNCHANGED <<config, norm, now, pacing, tiktok, instagram, running, started,
                   ensure_done>>

\* ---------------------------------------------------------------- health
HealthBody ==
    [tiktok |-> [ms_token_configured |-> Truthy(MS_TOKEN),
                 session_initialized |-> tiktok_session_initialized,
                 session_error |-> tiktok_session_error],
     instagram |-> [credentials_configured |->
                        Truthy(INSTAGRAM_USERNAME) /\ Truthy(INSTAGRAM_PASSWORD),
                    session_initialized |-> instagram_session_initialized,
                    session_error |-> instagram_session_error]]

health_check(r) ==
    /\ running = r
    /\ req[r].pc = "arrived"
    /\ req[r].endpoint = "health"
    /\ req' = [req EXCEPT ![r] =
                 [Finish(req[r], 200, <<"healthy", "">>)
                    EXCEPT !.body = <<HealthBody>>]]
    /\ UNCHANGED <<config, norm, now, pacing, tiktok, instagram, running, started,
                   ensure_done>>

\* ------------------------------------------------------------- response
\* The framework sends the handler's result (or the HTTPException) and the
\* request's task ends, giving the loop back.
Respond(r) ==
    /\ running = r
    /\ req[r].pc = "done"
    /\ req' = [req EXCEPT ![r] = IdleReq]
    /\ running' = 0
    /\ UNCHANGED <<config, norm, now, pacing, tiktok, instagram, started,
                   ensure_done>>

\* ------------------------------------------------------- pacing helper
NeedsDelay_Never(time_since_last) == FALSE

\* `if time_since_last < min_delay`
NeedsDelay(time_since_last) == time_since_last < MIN_REQUEST_DELAY

\* random.uniform(min_delay, max_delay)
DelayRange == MIN_REQUEST_DELAY..MAX_REQUEST_DELAY

PacingEnabled_Always(flag) == TRUE

\* `if not ENABLE_ANTI_DETECTION: return`
PacingEnabled(flag) == flag

StampTime_Start(start, finish) == start

\* `last_..._request_time = time.time()` after the sleep: the finishing time
StampTime(start, finish) == finish

\* the global a pacing call on `platform` reads and writes
LastRequestTime(platform) ==
    IF platform = "tiktok" THEN last_tiktok_request_time
    ELSE last_instagram_request_time

SetLastRequestTime(platform, t) ==
    /\ last_tiktok_request_time' =
          IF platform = "tiktok" THEN t ELSE last_tiktok_request_time
    /\ last_instagram_request_time' =
          IF platform = "tiktok" THEN last_instagram_request_time ELSE t

\* the handler's own pacing call (the one that returns to its data call) is
\* a step of the request; those inside the ensure call belong to the ensure
PaceSteps(q) == IF q.ret = "call" THEN Append(q.steps, "pace") ELSE q.steps

\* The call: up to the sleep, or to the return when no sleep is needed.
\* `yields`: asyncio.sleep gives the loop away, time.sleep keeps it.
PaceCall(r, platform, yields) ==
    /\ running = r
    /\ req[r].pc = "pace"
    /\ IF ~PacingEnabled(ENABLE_ANTI_DETECTION)
       THEN /\ req' = [req EXCEPT ![r].pc = req[r].ret,
                                  ![r].steps = PaceSteps(req[r]),
                                  ![r].pace = NoPace]
            /\ UNCHANGED <<pacing, running>>
       ELSE LET current_time == now
                last_request_time == LastRequestTime(platform)
                time_since_last == current_time - last_request_time
                called == [NoPace EXCEPT !.start = current_time,
                                         !.prev = last_request_time]
            IN  IF NeedsDelay(time_since_last)
                THEN /\ \E delay \in DelayRange :
                          req' = [req EXCEPT ![r].pc = "pace_sleep",
                                             ![r].wake = now + delay,
                                             ![r].pace = [called EXCEPT !.delay = delay]]
                     /\ running' = IF yields THEN 0 ELSE r
                     /\ UNCHANGED pacing
                ELSE /\ SetLastRequestTime(platform, StampTime(current_time, now))
                     /\ req' = [req EXCEPT ![r].pc = req[r].ret,
                                           ![r].steps = PaceSteps(req[r]),
                                           ![r].pace = [called EXCEPT !.end = now,
                                                                      !.over = last_request_time]]
                     /\ UNCHANGED running

\* The sleep is over (not before `wake`): stamp and return to the caller.
PaceWake(r, platform, yields) ==
    /\ running = (IF yields THEN 0 ELSE r)
    /\ req[r].pc = "pace_sleep"
    /\ now >= req[r].wake
    /\ SetLastRequestTime(platform, StampTime(req[r].pace.start, now))
    /\ req' = [req EXCEPT ![r].pc = req[r].ret, ![r].wake = 0,
                          ![r].steps = PaceSteps(req[r]),
                          ![r].pace = [req[r].pace EXCEPT
                                          !.end = now,
                                          !.over = LastRequestTime(platform)]]
    /\ running' = r

apply_request_delay(r) ==
    /\ Platform(req[r].endpoint) = "tiktok"
    /\ \/ PaceCall(r, "tiktok", TRUE)
       \/ PaceWake(r, "tiktok", TRUE)
    /\ UNCHANGED <<config, norm, now, tiktok, instagram, started, ensure_done>>

apply_request_delay_sync(r) ==
    /\ Platform(req[r].endpoint) = "instagram"
    /\ \/ PaceCall(r, "instagram", FALSE)
       \/ PaceWake(r, "instagram", FALSE)
    /\ UNCHANGED <<config, norm, now, tiktok, instagram, started, ensure_done>>

\* ------------------------------------------------ TikTok session manager
EnsureGuard_Never(initialized) == FALSE

\* `if tiktok_session_initialized: return` / `if instagram_session_initialized: return`
EnsureGuard(initialized) == initialized

TikTokConfigured_Always(token) == TRUE

\* `if not MS_TOKEN`
TikTokConfigured(token) == Truthy(token)

\* what create_sessions can raise with
TikTokErrors == {"Timeout 30000ms exceeded", "Invalid ms_token", "Browser closed"}

\* the detail of the 503 for str(e) = error_msg
TikTokDetail(error_msg) ==
    IF error_msg = "Timeout 30000ms exceeded"         \* "Timeout" in error_msg
    THEN <<"TikTok connection timed out. Original error: ", error_msg>>
    ELSE IF error_msg = "Invalid ms_token"            \* "ms_token" in error_msg.lower()
    THEN <<"Invalid MS_TOKEN. Please get a fresh msToken from TikTok cookies in your browser.", "">>
    ELSE <<"Failed to create TikTok session: ", error_msg>>

\* entry of ensure_tiktok_session, up to its first await
TikTokEnsureCall(r) ==
    /\ running = r
    /\ req[r].pc = "handler"
    /\ Platform(req[r].endpoint) = "tiktok"
    /\ LET q == [req[r] EXCEPT !.after_prior = ("tiktok" \in ensure_done),
                               !.api_key = None]
       IN  IF EnsureGuard(tiktok_session_initialized)
           THEN /\ req' = [req EXCEPT ![r] = [q EXCEPT !.pc = "ensured",
                                                       !.ensure = "noop"]]
                /\ ensure_done' = ensure_done \cup {"tiktok"}
                /\ UNCHANGED <<tiktok, running>>
           ELSE IF ~TikTokConfigured(MS_TOKEN)
           THEN /\ tiktok_session_error' = "MS_TOKEN not configured"
                /\ req' = [req EXCEPT ![r] =
                             Finish([q EXCEPT !.ensure = "config"], 503,
                                    <<"TikTok MS_TOKEN not configured. Please set it in .env file.", "">>)]
                /\ ensure_done' = ensure_done \cup {"tiktok"}
                /\ UNCHANGED <<tiktok_api, tiktok_session_initialized,
                               tiktok_sessions, running>>
           ELSE /\ tiktok_api' = <<req[r].serial, 1>>
                /\ IF ENABLE_ANTI_DETECTION
                   THEN \E d \in 1..3 :
                          req' = [req EXCEPT ![r] =
                                    [q EXCEPT !.pc = "tt_sleep", !.wake = now + d,
                                              !.ensure = "login", !.nclients = 1]]
                   ELSE req' = [req EXCEPT ![r] =
                                  [q EXCEPT !.pc = "tt_create",
                                            !.on = <<req[r].serial, 1>>,
                                            !.ensure = "login", !.nclients = 1]]
                /\ running' = 0
                /\ UNCHANGED <<tiktok_session_initialized, tiktok_session_error,
                               tiktok_sessions, ensure_done>>
    /\ UNCHANGED <<config, norm, now, pacing, instagram, started>>

\* asyncio.sleep(random.uniform(1, 3)) is over: create_sessions is awaited,
\* on the client the global names at that moment (`on`)
TikTokEnsureSleepDone(r) ==
    /\ running = 0
    /\ req[r].pc = "tt_sleep"
    /\ now >= req[r].wake
    /\ req' = [req EXCEPT ![r].pc = "tt_create", ![r].wake = 0,
                          ![r].on = tiktok_api]
    /\ UNCHANGED <<config, norm, now, pacing, tiktok, instagram, running, started,
                   ensure_done>>

\* create_sessions returns (its client now has a session) or raises
TikTokCreateSessionsDone(r, out) ==
    /\ running = 0
    /\ req[r].pc = "tt_create"
    /\ running' = r
    /\ ensure_done' = ensure_done \cup {"tiktok"}
    /\ IF out = "ok"
       THEN /\ tiktok_session_initialized' = TRUE
            /\ tiktok_session_error' = None
            /\ tiktok_sessions' = tiktok_sessions \cup {req[r].on}
            /\ req' = [req EXCEPT ![r].pc = "ensured", ![r].on = NoHandle,
                                  ![r].tiers = <<<<0, out>>>>]
       ELSE /\ tiktok_session_error' = out
            /\ req' = [req EXCEPT ![r] =
                         Finish([req[r] EXCEPT !.tiers = <<<<0, out>>>>,
                                               !.on = NoHandle],
                                503, TikTokDetail(out))]
            /\ UNCHANGED <<tiktok_session_initialized, tiktok_sessions>>
    /\ UNCHANGED <<config, norm, now, pacing, tiktok_api, instagram, started>>

ensure_tiktok_session(r) ==
    \/ TikTokEnsureCall(r)
    \/ TikTokEnsureSleepDone(r)
    \/ \E out \in {"ok"} \cup TikTokErrors : TikTokCreateSessionsDone(r, out)

\* --------------------------------------------- Instagram session manager
has_session_id == Truthy(INSTAGRAM_SESSION_ID)

has_user_pass == Truthy(INSTAGRAM_USERNAME) /\ Truthy(INSTAGRAM_PASSWORD)

\* `if not has_session_id and not has_user_pass` is the missing-configuration case
InstagramConfigured(sid, up) == sid \/ up

\* the exception kinds an instagrapi call can raise
KnownExceptions == {"TwoFactorRequired", "ChallengeRequired", "PleaseWaitFewMinutes"}
InstagramExceptions == KnownExceptions \cup {"ClientError"}
\* Tiers 1 and 2 catch every exception alike (except Exception, the message
\* printed and the next tier tried): one exception tier 3 would map and one
\* it would not stand for all of them.
SwallowedExceptions == {"ChallengeRequired", "ClientError"}

\* str(e)
ExcMessage(exc) ==
    IF exc = "ClientError" THEN "login failed"
    ELSE IF exc = "NoMethod" THEN "No valid login method available"
    ELSE exc

InstagramFailure_Flat(exc) ==
    [error |-> ExcMessage(exc), status |-> 503,
     detail |-> <<"Failed to login to Instagram: ", ExcMessage(exc)>>]

\* the except clauses of ensure_instagram_session, in their order
InstagramFailure(exc) ==
    IF exc = "TwoFactorRequired"
    THEN [error |-> "Two-factor authentication required", status |-> 503,
          detail |-> <<"Instagram 2FA required. Please disable 2FA or use session ID login.", "">>]
    ELSE IF exc = "ChallengeRequired"
    THEN [error |-> "Challenge required (suspicious login detected)", status |-> 503,
          detail |-> <<"Instagram challenge required. Please use session ID login instead.", "">>]
    ELSE IF exc = "PleaseWaitFewMinutes"
    THEN [error |-> "Rate limited - please wait", status |-> 429,
          detail |-> <<"Instagram rate limited. Please wait a few minutes.", "">>]
    ELSE [error |-> ExcMessage(exc), status |-> 503,
          detail |-> <<"Failed to login to Instagram: ", ExcMessage(exc)>>]

\* an exception reaches the outer except clauses: the call ends in failure
InstagramRaise(r, q, exc) ==
    LET f == InstagramFailure(exc)
    IN  /\ instagram_session_error' = f.error
        /\ req' = [req EXCEPT ![r] = Finish(q, f.status, f.detail)]
        /\ ensure_done' = ensure_done \cup {"instagram"}

\* a login tier succeeded: flag, error, return
InstagramLoggedIn(r, q) ==
    /\ instagram_session_initialized' = TRUE
    /\ instagram_session_error' = None
    /\ req' = [req EXCEPT ![r] = [q EXCEPT !.pc = "ensured"]]
    /\ ensure_done' = ensure_done \cup {"instagram"}

\* InstaClient(): the n-th client object request `serial` creates; its third
\* component is the proxy it sends its requests through (None at creation)
InstaClient(serial, n) == <<serial, n, None>>

\* `if INSTAGRAM_PROXY: instagram_client.set_proxy(INSTAGRAM_PROXY)`
ApplyProxy(client, proxy) ==
    IF Truthy(proxy) THEN <<client[1], client[2], proxy>> ELSE client

ProxyOf(client) == client[3]

\* entry: the guard, the configuration check, the client and the first sleep
InstagramEnsureCall(r) ==
    /\ req[r].pc = "handler"
    /\ LET q == [req[r] EXCEPT !.after_prior = ("instagram" \in ensure_done),
                               !.file_at_call = exists(session_file),
                               !.api_key = None]
       IN  IF EnsureGuard(instagram_session_initialized)
           THEN /\ req' = [req EXCEPT ![r] = [q EXCEPT !.pc = "ensured",
                                                       !.ensure = "noop"]]
                /\ ensure_done' = ensure_done \cup {"instagram"}
                /\ UNCHANGED instagram
           ELSE IF ~InstagramConfigured(has_session_id, has_user_pass)
           THEN /\ instagram_session_error' = "Instagram credentials not configured"
                /\ req' = [req EXCEPT ![r] =
                             Finish([q EXCEPT !.ensure = "config"], 503,
                                    <<"Instagram credentials not configured. Please set INSTAGRAM_SESSION_ID or (INSTAGRAM_USERNAME and INSTAGRAM_PASSWORD) in .env file.", "">>)]
                /\ ensure_done' = ensure_done \cup {"instagram"}
                /\ UNCHANGED <<instagram_client, instagram_session_initialized,
                               session_file>>
           ELSE /\ instagram_client' = ApplyProxy(InstaClient(req[r].serial, 1),
                                               INSTAGRAM_PROXY)
                /\ IF ENABLE_ANTI_DETECTION
                   THEN \E d \in 1..2 :
                          req' = [req EXCEPT ![r] =
                                    [q EXCEPT !.pc = "ig_sleep", !.wake = now + d,
                                              !.ensure = "login", !.nclients = 1]]
                   ELSE req' = [req EXCEPT ![r] =
                                  [q EXCEPT !.pc = "ig_tier1",
                                            !.ensure = "login", !.nclients = 1]]
                /\ UNCHANGED <<instagram_session_initialized,
                               instagram_session_error, session_file, ensure_done>>

\* time.sleep(random.uniform(1, 2)) is over
InstagramEnsureSleepDone(r) ==
    /\ req[r].pc = "ig_sleep"
    /\ now >= req[r].wake
    /\ req' = [req EXCEPT ![r].pc = "ig_tier1", ![r].wake = 0]
    /\ UNCHANGED <<instagram, ensure_done>>

Tier1Available_Always(sid) == TRUE

Tier1Available(sid) == sid

\* Priority 1: login_by_sessionid, then dump_settings
InstagramTier1(r, out) ==
    /\ req[r].pc = "ig_tier1"
    /\ IF Tier1Available(has_session_id)
       THEN LET q == [req[r] EXCEPT !.tiers = Append(@, <<1, out>>)]
            IN  IF out = "ok"
                THEN /\ session_file' = dump_settings(instagram_client, session_file)
                     /\ InstagramLoggedIn(r, q)
                     /\ UNCHANGED instagram_client
                ELSE /\ req' = [req EXCEPT ![r] = [q EXCEPT !.pc = "ig_tier2"]]
                     /\ UNCHANGED <<instagram, ensure_done>>
       ELSE /\ out = "ok"
            /\ req' = [req EXCEPT ![r].pc = "ig_tier2"]
            /\ UNCHANGED <<instagram, ensure_done>>

\* a failed tier 2 is dropped: `instagram_client = InstaClient()`
FreshClient(r, q, out) ==
    /\ instagram_client' = InstaClient(req[r].serial, q.nclients + 1)
    /\ req' = [req EXCEPT ![r] =
                 [q EXCEPT !.pc = "ig_tier3", !.nclients = @ + 1,
                           !.tiers = Append(@, <<2, out>>)]]
    /\ UNCHANGED <<instagram_session_initialized, instagram_session_error,
                   session_file, ensure_done>>

\* Priority 2: `if session_path.exists()`: load_settings, then the pacing
\* call that precedes account_info
InstagramTier2Load(r, out) ==
    /\ req[r].pc = "ig_tier2"
    /\ IF exists(session_file)
       THEN IF out = "ok"
            THEN /\ req' = [req EXCEPT ![r].pc = "pace", ![r].ret = "ig_validate"]
                 /\ UNCHANGED <<instagram, ensure_done>>
            ELSE FreshClient(r, req[r], out)
       ELSE /\ out = "ok"
            /\ req' = [req EXCEPT ![r].pc = "ig_tier3"]
            /\ UNCHANGED <<instagram, ensure_done>>

\* account_info() validates the loaded session
InstagramTier2Validate(r, out) ==
    /\ req[r].pc = "ig_validate"
    /\ LET q == [req[r] EXCEPT !.pace = NoPace]
       IN  IF out = "ok"
           THEN /\ InstagramLoggedIn(r, [q EXCEPT !.tiers = Append(@, <<2, out>>)])
                /\ UNCHANGED <<instagram_client, session_file>>
           ELSE FreshClient(r, q, out)

\* Priority 3: `if has_user_pass`: the pacing call that precedes login;
\* otherwise `raise Exception("No valid login method available")`
InstagramTier3(r) ==
    /\ req[r].pc = "ig_tier3"
    /\ IF has_user_pass
       THEN /\ req' = [req EXCEPT ![r].pc = "pace", ![r].ret = "ig_login"]
            /\ UNCHANGED <<instagram, ensure_done>>
       ELSE /\ InstagramRaise(r, req[r], "NoMethod")
            /\ UNCHANGED <<instagram_client, instagram_session_initialized,
                           session_file>>

\* login(username, password), then dump_settings
InstagramTier3Login(r, out) ==
    /\ req[r].pc = "ig_login"
    /\ LET q == [req[r] EXCEPT !.tiers = Append(@, <<3, out>>),
                               !.pace = NoPace]
       IN  IF out = "ok"
           THEN /\ session_file' = dump_settings(instagram_client, session_file)
                /\ InstagramLoggedIn(r, q)
                /\ UNCHANGED instagram_client
           ELSE /\ InstagramRaise(r, q, out)
                /\ UNCHANGED <<instagram_client, instagram_session_initialized,
                               session_file>>

ensure_instagram_session(r) ==
    /\ running = r
    /\ Platform(req[r].endpoint) = "instagram"
    /\ \/ InstagramEnsureCall(r)
       \/ InstagramEnsureSleepDone(r)
       \/ \E out \in {"ok"} \cup SwallowedExceptions : InstagramTier1(r, out)
       \/ \E out \in {"ok", "ClientError"} : InstagramTier2Load(r, out)
       \/ \E out \in {"ok"} \cup SwallowedExceptions : InstagramTier2Validate(r, out)
       \/ InstagramTier3(r)
       \/ \E out \in {"ok"} \cup InstagramExceptions : InstagramTier3Login(r, out)
    /\ UNCHANGED <<config, norm, now, pacing, tiktok, running, started>>

\* ------------------------------------------------------- after the ensure
\* a handler that goes from its ensure call straight to the data call
AfterEnsure_Call == "call"

\* where a handler goes when its ensure call has returned: to its pacing call
AfterEnsure == "pace"

\* the init endpoints answer; every other handler goes on to the pacing call
\* (the record of what the ensure call did ends with the call)
EnsureReturned(r) ==
    /\ running = r
    /\ req[r].pc = "ensured"
    /\ req' = [req EXCEPT ![r] =
                 IF req[r].endpoint \in {"tiktok_init", "instagram_init"}
                 THEN Finish([req[r] EXCEPT !.steps = Append(@, "ensure")],
                             200, <<"initialized", "">>)
                 ELSE [IdleReq EXCEPT !.pc = AfterEnsure, !.ret = "call",
                                      !.endpoint = req[r].endpoint,
                                      !.serial = req[r].serial,
                                      !.steps = Append(req[r].steps, "ensure")]]
    /\ UNCHANGED <<config, norm, now, pacing, tiktok, instagram, running, started,
                   ensure_done>>

\* ------------------------------------------------------- TikTok handlers
\* the exception kinds a TikTokApi call can raise
TikTokExceptions == {"ValueError", "TypeError"}

\* what video(url=...).info() can end with: a video only for a URL that
\* names one (the by-id handler builds its URL itself)
VideoOutcomes(e, url) ==
    IF e = "tiktok_video_url" /\ url = MalformedUrl THEN TikTokExceptions
    ELSE {"ok"} \cup TikTokExceptions

TikTokVideoFailure_Unavailable(e, exc) ==
    [status |-> 503, detail |-> <<"Error fetching TikTok video: ", exc>>]

\* the except clauses of the two video handlers
TikTokVideoFailure(e, exc) ==
    IF e = "tiktok_video_url" /\ exc = "ValueError"
    THEN [status |-> 400, detail |-> <<"", exc>>]
    ELSE [status |-> 500, detail |-> <<"Error fetching TikTok video: ", exc>>]

\* the session flag after a data call failed: the handlers do not touch it
SessionAfterCallFailure(flag) == flag

\* get_tiktok_video_by_id / get_tiktok_video_by_url after session and
\* pacing: video(url=...).info() is awaited
TikTokVideoCall(r, url) ==
    /\ running = r
    /\ req[r].pc = "call"
    /\ req[r].endpoint \in TikTokVideoReads
    /\ req[r].endpoint = "tiktok_video" => url = WellFormedUrl
    /\ req' = [req EXCEPT ![r].pc = "tt_info", ![r].pace = NoPace,
                          ![r].url = url,
                          ![r].upstream = Append(@, <<"video.info", <<>>, "pending">>)]
    /\ running' = 0
    /\ UNCHANGED <<config, norm, now, pacing, tiktok, instagram, started, ensure_done>>

\* info() returns (the result goes through parse_tiktok_video_data) or raises
TikTokVideoDone(r, out) ==
    /\ running = 0
    /\ req[r].pc = "tt_info"
    /\ out \in VideoOutcomes(req[r].endpoint, req[r].url)
    /\ LET q == [req[r] EXCEPT !.upstream = <<<<"video.info", <<>>,
                                               IF out = "ok" THEN "ok" ELSE "error">>>>]
           f == TikTokVideoFailure(req[r].endpoint, out)
       IN  /\ req' = [req EXCEPT ![r] =
                        IF out = "ok" THEN Finish(q, 200, <<"video", "">>)
                        ELSE Finish(q, f.status, f.detail)]
           /\ tiktok_session_initialized' =
                 IF out = "ok" THEN tiktok_session_initialized
                 ELSE SessionAfterCallFailure(tiktok_session_initialized)
    /\ running' = r
    /\ UNCHANGED <<config, norm, now, pacing, tiktok_api, tiktok_session_error,
                   tiktok_sessions,
                   instagram, started, ensure_done>>

get_tiktok_video_by_id(r) ==
    \/ \E url \in Urls : TikTokVideoCall(r, url)
    \/ \E out \in {"ok"} \cup TikTokExceptions : TikTokVideoDone(r, out)

\* ---------------------------------------------- Instagram media lookups
isdigit_Any(s) == \E i \in 1..Len(s) : s[i] \in Digits

\* str.isdigit(): non-empty and every character a digit
isdigit(s) == Len(s) > 0 /\ \A i \in 1..Len(s) : s[i] \in Digits

LookupDetail(e) ==
    IF e \in {"instagram_post", "instagram_post_url"}
    THEN "Error fetching Instagram post: "
    ELSE IF e = "instagram_post_comments" THEN "Error fetching Instagram comments: "
    ELSE IF e = "instagram_user_posts" THEN "Error fetching Instagram posts: "
    ELSE IF e = "instagram_user" THEN "Error fetching Instagram user: "
    ELSE "Error fetching Instagram likers: "

\* the key every upstream call after the resolution is made with
LookupKey(q) == q.pk

\* the outer `except Exception` of an Instagram handler
LookupFailure(q, msg) == Finish(q, 500, <<LookupDetail(q.endpoint), msg>>)

\* `if media_id.isdigit(): pk = media_id  else: pk = media_pk_from_code(media_id)`
\* on the request's path parameter media_id; `out` is the resolver's answer
\* (<<>> when it raises, or is not called)
ResolveIdentifier(r, media_id, out) ==
    /\ running = r
    /\ req[r].pc = "call"
    /\ req[r].endpoint \in InstagramLookups
    /\ LET q == [req[r] EXCEPT !.media_id = media_id, !.pace = NoPace]
       IN  IF isdigit(media_id)
           THEN /\ out = <<>>
                /\ req' = [req EXCEPT ![r] = [q EXCEPT !.pc = "fetch", !.pk = media_id]]
           ELSE LET c == [q EXCEPT !.resolver_calls = @ + 1,
                                   !.upstream = Append(@,
                                       <<"media_pk_from_code", media_id,
                                         IF out \in ResolvedPks THEN "ok" ELSE "error">>)]
                IN  IF out \in ResolvedPks
                    THEN req' = [req EXCEPT ![r] =
                                   [c EXCEPT !.pc = "fetch", !.pk = out, !.resolved = out]]
                    ELSE req' = [req EXCEPT ![r] = LookupFailure(c, "bad code")]
    /\ UNCHANGED <<config, norm, now, pacing, tiktok, instagram, running, started,
                   ensure_done>>

\* get_instagram_post_by_url: `pk = instagram_client.media_pk_from_url(request.url)`;
\* for a URL that names no item the library raises or answers some key
ResolveUrl(r, url, out) ==
    /\ running = r
    /\ req[r].pc = "call"
    /\ req[r].endpoint = "instagram_post_url"
    /\ LET c == [req[r] EXCEPT !.url = url, !.pace = NoPace,
                               !.upstream = Append(@,
                                   <<"media_pk_from_url", <<>>,
                                     IF out \in ResolvedPks THEN "ok" ELSE "error">>)]
       IN  IF out \in ResolvedPks
           THEN req' = [req EXCEPT ![r] = [c EXCEPT !.pc = "fetch", !.pk = out]]
           ELSE req' = [req EXCEPT ![r] = LookupFailure(c, "bad url")]
    /\ UNCHANGED <<config, norm, now, pacing, tiktok, instagram, running, started,
                   ensure_done>>

\* what user_id_from_username can answer
UserIds == {<<"1">>}

\* get_instagram_user_posts: `user_id = instagram_client.user_id_from_username(username)`
ResolveUsername(r, out) ==
    /\ running = r
    /\ req[r].pc = "call"
    /\ req[r].endpoint = "instagram_user_posts"
    /\ LET c == [req[r] EXCEPT !.pace = NoPace,
                               !.upstream = Append(@,
                                   <<"user_id_from_username", <<>>,
                                     IF out \in UserIds THEN "ok" ELSE "error">>)]
       IN  IF out \in UserIds
           THEN req' = [req EXCEPT ![r] = [c EXCEPT !.pc = "fetch", !.pk = out]]
           ELSE req' = [req EXCEPT ![r] = LookupFailure(c, "user not found")]
    /\ UNCHANGED <<config, norm, now, pacing, tiktok, instagram, running, started,
                   ensure_done>>

\* get_instagram_user_by_username: `username = username.lstrip("@")`; the
\* handler has no identifier to resolve
StripUsername(r) ==
    /\ running = r
    /\ req[r].pc = "call"
    /\ req[r].endpoint = "instagram_user"
    /\ req' = [req EXCEPT ![r].pc = "fetch", ![r].pace = NoPace]
    /\ UNCHANGED <<config, norm, now, pacing, tiktok, instagram, running, started,
                   ensure_done>>

PrimaryCall(e) ==
    IF e \in {"instagram_post", "instagram_post_url"} THEN "private_request media/info"
    ELSE IF e = "instagram_post_comments" THEN "media_comments_chunk"
    ELSE IF e = "instagram_user_posts" THEN "user_medias_gql"
    ELSE IF e = "instagram_user" THEN "user_info_by_username_v1"
    ELSE "media_likers"

FallbackCall(e) ==
    IF e \in {"instagram_post", "instagram_post_url"} THEN "media_info"
    ELSE IF e = "instagram_user_posts" THEN "private_request feed/user"
    ELSE IF e = "instagram_user" THEN "private_request web_profile_info"
    ELSE "private_request media/comments"

\* every handler falls back to a second call
HasFallback_Always(e) == TRUE

\* the handlers with a second retrieval strategy (likers has none)
HasFallback(e) == e # "instagram_post_likers"

\* the handlers whose fallback sits in its own `except Exception` that only
\* prints: the handler then returns what it has collected
FallbackSwallowed(e) == e \in {"instagram_post_comments", "instagram_user_posts"}

\* how the primary strategy can end: the call returns a usable result, the
\* call raises, or (where the inner `try` also covers the handling of the
\* result) the call returns and the handler raises on what it got: no item
\* in the response, or a normalizer that raises
PrimaryOutcomes(e) ==
    {"ok", "error"} \cup
    (IF e \in {"instagram_post", "instagram_post_url", "instagram_post_comments",
               "instagram_user"}
     THEN {"unusable"} ELSE {})

\* the first retrieval call of the handler
LookupPrimary(r, out) ==
    /\ running = r
    /\ req[r].pc = "fetch"
    /\ out \in PrimaryOutcomes(req[r].endpoint)
    /\ LET e == req[r].endpoint
           q == [req[r] EXCEPT !.upstream =
                    Append(@, <<PrimaryCall(e), LookupKey(req[r]), out>>)]
       IN  req' = [req EXCEPT ![r] =
                     IF out = "ok" THEN Finish(q, 200, <<"ok", "">>)
                     ELSE IF ~HasFallback(e)
                     THEN LookupFailure(q, "upstream error")
                     ELSE [q EXCEPT !.pc = "fallback"]]
    /\ UNCHANGED <<config, norm, now, pacing, tiktok, instagram, running, started,
                   ensure_done>>

\* the fallback retrieval call: media_info for a post; for comments and user
\* posts the raw request, whose failure is swallowed (an empty collection is
\* returned)
LookupFallback(r, out) ==
    /\ running = r
    /\ req[r].pc = "fallback"
    /\ LET e == req[r].endpoint
           q == [req[r] EXCEPT !.upstream =
                    Append(@, <<FallbackCall(e), LookupKey(req[r]), out>>)]
       IN  req' = [req EXCEPT ![r] =
                     IF out = "ok" THEN Finish(q, 200, <<"ok", "">>)
                     ELSE IF FallbackSwallowed(e)
                     THEN Finish(q, 200, <<"empty", "">>)
                     ELSE LookupFailure(q, "upstream error")]
    /\ UNCHANGED <<config, norm, now, pacing, tiktok, instagram, running, started,
                   ensure_done>>

InstagramLookup(r) ==
    \/ \E m \in MediaIds, out \in ResolvedPks \cup {<<>>} :
          ResolveIdentifier(r, m, out)
    \/ \E url \in Urls, out \in ResolvedPks \cup {<<>>} : ResolveUrl(r, url, out)
    \/ \E out \in UserIds \cup {<<>>} : ResolveUsername(r, out)
    \/ StripUsername(r)
    \/ \E out \in {"ok", "error", "unusable"} : LookupPrimary(r, out)
    \/ \E out \in {"ok", "error"} : LookupFallback(r, out)

\* ------------------------------------------------------------ normalizers
\* A value of an upstream payload: `t` is its Python type ("absent" when the
\* key is not in the dictionary), `n` / `s` its number / text.
Absent == [t |-> "absent", n |-> 0, s |-> ""]
Null == [t |-> "null", n |-> 0, s |-> ""]
IntV(n) == [t |-> "int", n |-> n, s |-> ""]
StrV(s) == [t |-> "str", n |-> 0, s |-> s]

\* a nested dictionary: absent, null, or a dict whose keys have the values in
\* `f` (Absent for the keys it lacks)
Fields(keys) == [k \in keys |-> Absent]
NoDict(keys) == [t |-> "absent", f |-> Fields(keys)]
NullDict(keys) == [t |-> "null", f |-> Fields(keys)]
Dict(f) == [t |-> "dict", f |-> f]

\* dict.get(key, {})
GetDict(d) == IF d.t = "absent" THEN Dict(d.f) ELSE d

\* an empty or null nested dictionary is falsy
DictTruthy(d) == d.t = "dict" /\ \E k \in DOMAIN d.f : d.f[k].t # "absent"

\* dict.get(key, default): the default only when the key is absent
Get(v, default) == IF v.t = "absent" THEN default ELSE v

\* Python truthiness
IsTruthy(v) ==
    IF v.t = "int" THEN v.n # 0
    ELSE IF v.t = "str" THEN v.s # ""
    ELSE FALSE

\* `a or b`
Or(a, b) == IF IsTruthy(a) THEN a ELSE b

\* the strings int() accepts, with their values
NumericStrings == ("0" :> 0) @@ ("5" :> 5) @@ ("7" :> 7)

\* int(v): the number, or the exception raised
IntOf(v) ==
    IF v.t = "int" THEN [exc |-> "", n |-> v.n]
    ELSE IF v.t = "str"
    THEN IF v.s \in DOMAIN NumericStrings
         THEN [exc |-> "", n |-> NumericStrings[v.s]]
         ELSE [exc |-> "ValueError", n |-> 0]
    ELSE [exc |-> "TypeError", n |-> 0]

\* str(v) of a scalar
StrOf(v) ==
    IF v.t = "str" THEN v.s
    ELSE IF v.t = "int" THEN ToString(v.n)
    ELSE IF v.t = "null" THEN "None" ELSE ""

\* datetime values (None included) and datetime.isoformat()
NoneTime == [null |-> TRUE, epoch |-> 0]
fromtimestamp(n) == [null |-> FALSE, epoch |-> n]
isoformat(dt) ==
    "1970-01-01T00:00:" \o (IF dt.epoch < 10 THEN "0" ELSE "") \o ToString(dt.epoch)

\* pydantic field validation: `str`, `int` (numeric strings are coerced)
ValidStr(v) == v.t = "str"
ValidInt(v) == IntOf(v).exc = ""

\* a mandatory timestamp that falls back to the time of the call
MandatoryTime_Now(raw, clock) ==
    IF ~IsTruthy(raw) THEN fromtimestamp(clock)
    ELSE IF IntOf(raw).exc # "" THEN fromtimestamp(clock)
    ELSE fromtimestamp(IntOf(raw).n)

\* `create_time_unix = int(raw) if raw else 0; create_time = fromtimestamp(...)`
\* with `except (ValueError, TypeError, OSError): create_time = datetime.now()`
MandatoryTime(raw, clock) ==
    IF ~IsTruthy(raw) THEN fromtimestamp(0)
    ELSE IF IntOf(raw).exc # "" THEN fromtimestamp(clock)
    ELSE fromtimestamp(IntOf(raw).n)

\* parse_tiktok_comment: `unix = int(raw) if raw else 0;
\* create_time = fromtimestamp(unix) if unix else None`, None on an exception
OptionalTime(raw) ==
    IF ~IsTruthy(raw) THEN NoneTime
    ELSE IF IntOf(raw).exc # "" THEN NoneTime
    ELSE IF IntOf(raw).n = 0 THEN NoneTime
    ELSE fromtimestamp(IntOf(raw).n)

\* the Instagram dictionary normalizers: `if raw: try: fromtimestamp(int(raw))
\* except: None  else: None`
OptionalTimeInstagram(raw) ==
    IF ~IsTruthy(raw) THEN NoneTime
    ELSE IF IntOf(raw).exc # "" THEN NoneTime
    ELSE fromtimestamp(IntOf(raw).n)

\* `x.isoformat() if x else ""`
OptionalIso(dt) == IF dt.null THEN "" ELSE isoformat(dt)

\* the keys of a video's `stats` that the normalizer reads
StatKeys == {"playCount", "diggCount", "commentCount", "shareCount"}

\* stats_data.get(key, 0)
StatOf(stats_data, key) == Get(stats_data.f[key], IntV(0))

parse_tiktok_video_data(video_dict, clock) ==
    LET stats_data == GetDict(video_dict.stats)
        author_data == GetDict(video_dict.author)
        create_time == MandatoryTime(Get(video_dict.createTime, IntV(0)), clock)
        id == Get(video_dict.id, StrV(""))
        desc == Get(video_dict.desc, StrV(""))
    IN  IF stats_data.t = "null" \/ author_data.t = "null"
        THEN Raised("AttributeError")
        ELSE LET stat(k) == StatOf(stats_data, k)
                 uniqueId == Get(author_data.f.uniqueId, StrV(""))
             IN  IF \/ ~ValidStr(id) \/ ~ValidStr(desc) \/ ~ValidStr(uniqueId)
                    \/ \E k \in StatKeys :
                          ~ValidInt(stat(k))
                 THEN Raised("ValidationError")
                 ELSE [raised |-> "", id |-> id.s, description |-> desc.s,
                       create_time |-> create_time,
                       create_time_iso |-> isoformat(create_time),
                       views |-> IntOf(stat("playCount")).n,
                       likes |-> IntOf(stat("diggCount")).n,
                       comments |-> IntOf(stat("commentCount")).n,
                       shares |-> IntOf(stat("shareCount")).n,
                       author_username |-> uniqueId.s]

\* the third shape of a user dictionary: the user's fields at top level
parse_tiktok_user_data(user_dict) ==
    LET stats_data == GetDict(user_dict.stats)
        nickname == Get(user_dict.nickname, StrV(""))
        username == Get(user_dict.uniqueId, StrV(""))
    IN  IF stats_data.t = "null" THEN Raised("AttributeError")
        ELSE LET followers == Or(Get(stats_data.f.followerCount, IntV(0)), IntV(0))
             IN  IF ~ValidStr(nickname) \/ ~ValidInt(followers)
                    \/ (IsTruthy(username) /\ ~ValidStr(username))
                 THEN Raised("ValidationError")
                 ELSE [raised |-> "", id |-> StrOf(Get(user_dict.id, StrV(""))),
                       username |-> IF IsTruthy(username) THEN username.s ELSE "",
                       nickname |-> nickname.s,
                       followers |-> IntOf(followers).n]

parse_tiktok_comment(comment_dict) ==
    LET user == GetDict(comment_dict.user)
        author_data == IF DictTruthy(user) THEN user
                       ELSE GetDict(comment_dict.author)
        create_time == OptionalTime(Or(Get(comment_dict.createTime, IntV(0)),
                                       Get(comment_dict.create_time, IntV(0))))
        text == Or(Get(comment_dict.text, StrV("")), StrV(""))
        likes == Or(Get(comment_dict.diggCount, IntV(0)), IntV(0))
    IN  IF author_data.t = "null" THEN Raised("AttributeError")
        ELSE LET uniqueId == Or(Get(author_data.f.uniqueId, StrV("")), StrV(""))
             IN  IF ~ValidStr(text) \/ ~ValidInt(likes) \/ ~ValidStr(uniqueId)
                 THEN Raised("ValidationError")
                 ELSE [raised |-> "", id |-> StrOf(Get(comment_dict.cid, StrV(""))),
                       text |-> text.s,
                       create_time |-> create_time,
                       create_time_iso |-> OptionalIso(create_time),
                       likes |-> IntOf(likes).n,
                       author_username |-> uniqueId.s]

parse_instagram_media_dict(data) ==
    LET taken_at == OptionalTimeInstagram(Or(Get(data.taken_at, Null),
                                             Get(data.taken_at_timestamp, Null)))
        like_count == Or(Get(data.like_count, IntV(0)), IntV(0))
        code == Get(data.code, StrV(""))
        user == GetDict(data.user)
        author == IF user.t = "dict" THEN Get(user.f.username, StrV(""))
                  ELSE StrV("")
    IN  IF ~ValidStr(code) \/ ~ValidInt(like_count) \/ ~ValidStr(author)
        THEN Raised("ValidationError")
        ELSE [raised |-> "", id |-> StrOf(Get(data.id, StrV(""))),
              code |-> code.s,
              create_time |-> taken_at,
              create_time_iso |-> OptionalIso(taken_at),
              likes |-> IntOf(like_count).n,
              author_username |-> author.s]

parse_instagram_comment_dict(data) ==
    LET created_at == OptionalTimeInstagram(Or(Get(data.created_at, Null),
                                               Get(data.created_at_utc, Null)))
        user == GetDict(data.user)
        text == Get(data.text, StrV(""))
        likes == Or(Get(data.comment_like_count, IntV(0)), IntV(0))
    IN  IF user.t = "null" THEN Raised("AttributeError")
        ELSE LET username == Get(user.f.username, StrV(""))
             IN  IF ~ValidStr(text) \/ ~ValidInt(likes) \/ ~ValidStr(username)
                 THEN Raised("ValidationError")
                 ELSE [raised |-> "", id |-> StrOf(Get(data.pk, StrV(""))),
                       text |-> text.s,
                       create_time |-> created_at,
                       create_time_iso |-> OptionalIso(created_at),
                       likes |-> IntOf(likes).n,
                       author_username |-> username.s]

\* the keys parse_instagram_media_dict probes for the view count, in the
\* order of the `or` chain; the last probe is clips_metadata.play_count
ViewKeys == <<"play_count", "ig_play_count", "video_play_count", "view_count",
              "video_view_count", "fb_play_count">>

\* `a or b or ...` over data.get(key) for the keys from position i on, ending
\* with `last`
RECURSIVE OrChain(_, _, _)
OrChain(data, i, last) ==
    IF i > Len(ViewKeys) THEN last
    ELSE Or(Get(data[ViewKeys[i]], Null), OrChain(data, i + 1, last))

\* `view_count = (a or b or ... or clips.get('play_count')
\*               if isinstance(data.get('clips_metadata'), dict) else None)`:
\* the conditional binds weaker than `or`, the whole chain is its first arm
view_count(data) ==
    IF data.clips_metadata.t = "dict"
    THEN OrChain(data, 1, Get(data.clips_metadata.f.play_count, Null))
    ELSE Null

\* the `views` of the record parse_instagram_media_dict builds
media_views(data) == [raised |-> "", views |-> view_count(data)]

\* ---- collection responses
\* An upstream comment is "ok" or "bad" (its normalizer raises on it).
Parsable(items) == SelectSeq(items, LAMBDA c : c = "ok")
AllParsable(items) == \A i \in 1..Len(items) : items[i] = "ok"

\* a count taken from what upstream sent
CountOf_Upstream(upstream_items, returned) == Len(upstream_items)

\* `count=len(comment_list)`
CountOf(upstream_items, returned) == Len(returned)

\* bool(x) as a Python bool (an int)
BoolOf(v) == IntV(IF IsTruthy(v) THEN 1 ELSE 0)

\* the body of get_instagram_post_comments after the identifier is resolved:
\* media_comments_chunk with its list comprehension, the raw request in the
\* except branch, whose own failure is only printed
instagram_comments_response(p) ==
    IF ~p.chunk.raises /\ AllParsable(p.chunk.comments)
    THEN [raised |-> "", path |-> "chunk",
          count |-> CountOf(p.chunk.comments, p.chunk.comments),
          comments |-> p.chunk.comments,
          next_cursor |-> p.chunk.end_cursor,
          has_more |-> BoolOf(p.chunk.end_cursor)]
    ELSE IF p.raw.raises
    THEN [raised |-> "", path |-> "none", count |-> CountOf(<<>>, <<>>),
          comments |-> <<>>, next_cursor |-> Null, has_more |-> IntV(0)]
    ELSE LET next_cursor == Or(Get(p.raw.next_min_id, Null),
                               Get(p.raw.next_max_id, Null))
         IN  [raised |-> "", path |-> "raw",
              count |-> CountOf(p.raw.comments, Parsable(p.raw.comments)),
              comments |-> Parsable(p.raw.comments),
              next_cursor |-> next_cursor,
              has_more |-> Or(Get(p.raw.has_more_comments, IntV(0)),
                              BoolOf(next_cursor))]

\* the body of get_tiktok_video_comments: every comment of the iteration goes
\* through parse_tiktok_comment; an exception ends the handler (500)
tiktok_comments_response(p) ==
    IF p.raises \/ ~AllParsable(p.comments) THEN Raised("Exception")
    ELSE [raised |-> "", count |-> CountOf(p.comments, p.comments),
          comments |-> p.comments]

\* ---- the payloads the normalizers are applied to
Timestamps == {Absent, Null, IntV(0), IntV(5), StrV("0"), StrV("5"), StrV("abc")}
Users(key) == {NoDict({key}), NullDict({key})}
                 \cup {Dict([k \in {key} |-> v]) : v \in {Absent, StrV("bob")}}

VideoStats ==
    {NoDict(StatKeys), NullDict(StatKeys)}
    \cup {Dict([playCount |-> p, diggCount |-> d, commentCount |-> Absent,
                shareCount |-> s]) :
             p \in {Absent, Null, IntV(5)}, d \in {Absent, IntV(1)},
             s \in {Absent, StrV("7")}}

VideoDicts ==
    [id : {Absent, StrV("7"), IntV(7)}, desc : {Absent, StrV("hi")},
     createTime : Timestamps, stats : VideoStats, author : Users("uniqueId")]

UserDicts ==
    [id : {Absent, IntV(7)}, uniqueId : {Absent, StrV("bob")},
     nickname : {Absent, Null, StrV("Bob")},
     stats : {NoDict({"followerCount"}), NullDict({"followerCount"}),
              Dict([followerCount |-> IntV(5)])}]

CommentDicts ==
    [cid : {Absent, IntV(7)}, text : {Absent, Null, StrV("hi")},
     createTime : Timestamps, create_time : {Absent, IntV(7)},
     diggCount : {Absent, Null, IntV(5)},
     user : Users("uniqueId"),
     author : {NoDict({"uniqueId"}), NullDict({"uniqueId"})}]

MediaDicts ==
    [id : {Absent, IntV(7)}, code : {Absent, Null, StrV("abc")},
     taken_at : Timestamps, taken_at_timestamp : {Absent, IntV(7)},
     like_count : {Absent, Null, IntV(5)}, user : Users("username")]

IgCommentDicts ==
    [pk : {Absent, IntV(7)}, text : {Absent, Null, StrV("hi")},
     created_at : Timestamps, created_at_utc : {Absent, IntV(7)},
     comment_like_count : {Absent, Null, IntV(5)}, user : Users("username")]

\* media dictionaries for the view count: each flat key absent, 0 or a count
\* of its own (its position in ViewKeys)
ViewDicts ==
    {[k \in {ViewKeys[i] : i \in 1..Len(ViewKeys)} \cup {"clips_metadata"} |->
        IF k = "clips_metadata" THEN c ELSE f[k]] :
       f \in [{ViewKeys[i] : i \in 1..Len(ViewKeys)} -> {Absent, IntV(0), IntV(5)}],
       c \in {NoDict({"play_count"}), NullDict({"play_count"})}
              \cup {Dict([play_count |-> v]) : v \in {Absent, IntV(0), IntV(7)}}}

\* what upstream answers to the comment calls
CommentLists == {<<>>, <<"ok">>, <<"ok", "ok">>, <<"bad", "ok">>}
Cursors == {Absent, Null, StrV(""), StrV("c1")}

ChunkAnswers ==
    [raises : BOOLEAN, comments : CommentLists, end_cursor : Cursors \ {Absent}]

RawAnswers ==
    [raises : BOOLEAN, comments : {<<>>, <<"bad", "ok">>},
     next_min_id : Cursors, next_max_id : {Absent, StrV("c2")},
     has_more_comments : {Absent, Null, IntV(0), IntV(1)}]

InstagramCommentAnswers == [chunk : ChunkAnswers, raw : RawAnswers]
TikTokCommentAnswers == [raises : BOOLEAN, comments : CommentLists]

Normalizers == {"parse_tiktok_video_data", "parse_tiktok_user_data",
                "parse_tiktok_comment", "parse_instagram_media_dict",
                "parse_instagram_comment_dict", "media_views",
                "instagram_comments_response", "tiktok_comments_response"}

PayloadsOf(p) ==
    IF p = "parse_tiktok_video_data" THEN VideoDicts
    ELSE IF p = "parse_tiktok_user_data" THEN UserDicts
    ELSE IF p = "parse_tiktok_comment" THEN CommentDicts
    ELSE IF p = "parse_instagram_media_dict" THEN MediaDicts
    ELSE IF p = "media_views" THEN ViewDicts
    ELSE IF p = "instagram_comments_response" THEN InstagramCommentAnswers
    ELSE IF p = "tiktok_comments_response" THEN TikTokCommentAnswers
    ELSE IgCommentDicts

Apply(p, d, clock) ==
    IF p = "parse_tiktok_video_data" THEN parse_tiktok_video_data(d, clock)
    ELSE IF p = "parse_tiktok_user_data" THEN parse_tiktok_user_data(d)
    ELSE IF p = "parse_tiktok_comment" THEN parse_tiktok_comment(d)
    ELSE IF p = "parse_instagram_media_dict" THEN parse_instagram_media_dict(d)
    ELSE IF p = "media_views" THEN media_views(d)
    ELSE IF p = "instagram_comments_response" THEN instagram_comments_response(d)
    ELSE IF p = "tiktok_comments_response" THEN tiktok_comments_response(d)
    ELSE parse_instagram_comment_dict(d)

\* the normalizer is called on the payload at the current time
Normalize ==
    /\ parser \in Normalizers
    /\ record' = [out |-> Apply(parser, payload, now), at |-> now]
    /\ UNCHANGED <<config, now, pacing, tiktok, instagram, req, running,
                   started, ensure_done, parser, payload>>

Handle ==
    \/ Tick
    \/ \E r \in Slots, h \in Headers : VerifyApiKey(r, h)
    \/ \E r \in Slots : health_check(r)
    \/ \E r \in Slots : ensure_tiktok_session(r)
    \/ \E r \in Slots : ensure_instagram_session(r)
    \/ \E r \in Slots : EnsureReturned(r)
    \/ \E r \in Slots : apply_request_delay(r)
    \/ \E r \in Slots : apply_request_delay_sync(r)
    \/ \E r \in Slots : get_tiktok_video_by_id(r)
    \/ \E r \in Slots : InstagramLookup(r)
    \/ \E r \in Slots : Respond(r)

\* requests arrive at any time, also while others are parked at an await
Next ==
    \/ \E r \in Slots, e \in Endpoints : Arrive(r, e)
    \/ Handle

Spec == Init /\ [][Next]_vars

\* requests handled one after another: none arrives while one is in flight
NextSeq ==
    \/ \E r \in Slots, e \in Endpoints :
          (\A s \in Slots : Free(s)) /\ Arrive(r, e)
    \/ Handle

SpecSeq == Init /\ [][NextSeq]_vars

\* the normalizers on their own: one of them and a payload are chosen, and the
\* normalizer is called on it at any time
InitParse ==
    /\ parser \in Normalizers
    /\ payload \in PayloadsOf(parser)
    /\ record = NotParsed
    /\ API_KEY = BaseConfig.key
    /\ MS_TOKEN = BaseConfig.token
    /\ INSTAGRAM_SESSION_ID = BaseConfig.sid
    /\ INSTAGRAM_USERNAME = BaseConfig.user
    /\ INSTAGRAM_PASSWORD = BaseConfig.pw
    /\ INSTAGRAM_PROXY = BaseConfig.proxy
    /\ session_file = SavedBlob
    /\ ENABLE_ANTI_DETECTION = TRUE
    /\ now = StartTime
    /\ last_tiktok_request_time = 0
    /\ last_instagram_request_time = 0
    /\ tiktok_api = NoHandle
    /\ tiktok_sessions = {}
    /\ tiktok_session_initialized = FALSE
    /\ tiktok_session_error = None
    /\ instagram_client = NoHandle
    /\ instagram_session_initialized = FALSE
    /\ instagram_session_error = None
    /\ req = [r \in Slots |-> IdleReq]
    /\ running = 0
    /\ started = 0
    /\ ensure_done = {}

NextParse == Tick \/ Normalize

SpecParse == InitParse /\ [][NextParse]_vars

\* ======================================================================
\* Properties
\* ======================================================================
PlatformOf(r) == Platform(req[r].endpoint)

Initialized(p) ==
    IF p = "tiktok" THEN tiktok_session_initialized
    ELSE instagram_session_initialized

SessionError(p) ==
    IF p = "tiktok" THEN tiktok_session_error ELSE instagram_session_error

\* the request has been through the key check
KeyChecked(r) ==
    \/ req[r].pc = "handler"
    \/ req[r].pc = "done" /\ req[r].status \in {401, 403}

KeyOutcome(r) == IF req[r].pc = "handler" THEN 0 ELSE req[r].status

SecretConfigured == Truthy(API_KEY)

\* C1 as stated: no secret -> the request proceeds; secret and header absent
\* -> 401; secret and header present but different -> 403; secret and header
\* equal -> the request proceeds.
C1_FourOutcomes ==
    \A r \in Slots : KeyChecked(r) =>
        /\ ~SecretConfigured => KeyOutcome(r) = 0
        /\ SecretConfigured /\ req[r].api_key = None => KeyOutcome(r) = 401
        /\ SecretConfigured /\ req[r].api_key # None /\ req[r].api_key # API_KEY
              => KeyOutcome(r) = 403
        /\ SecretConfigured /\ req[r].api_key = API_KEY => KeyOutcome(r) = 0

\* C1 amended: no secret -> the request proceeds whatever the header; secret
\* and header absent or empty -> 401; secret and header non-empty but
\* different -> 403; secret and header equal -> the request proceeds.
C1_KeyCheck ==
    \A r \in Slots : KeyChecked(r) =>
        /\ ~SecretConfigured => KeyOutcome(r) = 0
        /\ SecretConfigured /\ req[r].api_key \in {None, ""} => KeyOutcome(r) = 401
        /\ SecretConfigured /\ req[r].api_key \notin {None, "", API_KEY}
              => KeyOutcome(r) = 403
        /\ SecretConfigured /\ req[r].api_key = API_KEY => KeyOutcome(r) = 0

\* with a secret configured, an empty X-API-Key header was answered 401
C1_Witness ==
    /\ SecretConfigured
    /\ \E r \in Slots : req[r].pc = "done" /\ req[r].status = 401 /\ req[r].api_key = ""

\* C2 as stated: an ensure call that follows a completed ensure call of the
\* same platform performs no login/creation path (the first call did it).
C2_SecondCallNoLogin ==
    \A r \in Slots : req[r].after_prior =>
        req[r].nclients = 0 /\ req[r].ensure # "login"

EnsureCalled(r) == req[r].pc = "handler" /\ req'[r].pc # "handler"

\* C2 amended: an ensure call made while the platform's session is
\* initialized (as after any ensure call that succeeded) returns immediately:
\* it creates no client, attempts no login, makes no pacing or upstream call
\* and changes no session state.
C2_EnsureIdempotent ==
    [][\A r \in Slots :
          EnsureCalled(r) /\ Initialized(PlatformOf(r)) =>
             /\ req'[r].pc = "ensured"
             /\ req'[r].nclients = 0
             /\ req'[r].tiers = <<>>
             /\ req'[r].upstream = <<>>
             /\ UNCHANGED <<tiktok, instagram, pacing>>]_vars

\* a second ensure call in sequence found the session initialized
C2_Witness ==
    \E r \in Slots :
        /\ req[r].pc = "ensured"
        /\ req[r].after_prior
        /\ req[r].ensure = "noop"
        /\ Initialized(PlatformOf(r))

EnsurePcs == {"handler", "tt_sleep", "tt_create", "ig_sleep", "ig_tier1",
              "ig_tier2", "ig_validate", "ig_tier3", "ig_login", "pace",
              "pace_sleep"}

\* the ensure call of request r ends in this step by raising
EnsureFailed(r) ==
    /\ req[r].pc \in EnsurePcs
    /\ req'[r].pc = "done"
    /\ req'[r].status \in {503, 429}

\* C3: the initialized flag becomes true only in a step in which an ensure
\* call's login succeeds, and the recorded error is then null; every ensure
\* call that ends in failure leaves the flag false and a non-null recorded
\* error, which is what the health endpoint reports.
C3_FlagOnlyOnSuccess ==
    [][/\ \A p \in {"tiktok", "instagram"} :
             ~Initialized(p) /\ Initialized(p)' =>
                /\ SessionError(p)' = None
                /\ \E r \in Slots :
                      /\ PlatformOf(r) = p
                      /\ req'[r].pc = "ensured"
                      /\ req'[r].tiers # <<>>
                      /\ req'[r].tiers[Len(req'[r].tiers)][2] = "ok"
       /\ \A r \in Slots :
             EnsureFailed(r) =>
                /\ ~Initialized(PlatformOf(r))'
                /\ SessionError(PlatformOf(r))' # None
                /\ HealthBody'[PlatformOf(r)].session_initialized = FALSE
                /\ HealthBody'[PlatformOf(r)].session_error # None]_vars

\* the request has made its ensure call, which has returned or raised
EnsureOver(r) ==
    \/ req[r].pc \in {"ensured", "call", "tt_info", "fetch", "fallback"}
    \/ req[r].pc \in {"pace", "pace_sleep"} /\ req[r].ret = "call"
    \/ req[r].pc = "done" /\ req[r].status \notin {401, 403}

TikTokMissing == MS_TOKEN \in {None, ""}

InstagramMissing ==
    /\ INSTAGRAM_SESSION_ID \in {None, ""}
    /\ INSTAGRAM_USERNAME \in {None, ""} \/ INSTAGRAM_PASSWORD \in {None, ""}

\* C4: with the required configuration absent, an ensure call fails with 503,
\* records the configuration error, creates no client, attempts no login and
\* leaves the flag false.
C4_MissingConfiguration ==
    /\ TikTokMissing =>
          /\ tiktok_api = NoHandle
          /\ ~tiktok_session_initialized
          /\ \A r \in Slots : PlatformOf(r) = "tiktok" /\ EnsureOver(r) =>
                /\ req[r].pc = "done" /\ req[r].status = 503
                /\ req[r].nclients = 0 /\ req[r].tiers = <<>>
                /\ req[r].upstream = <<>>
                /\ tiktok_session_error = "MS_TOKEN not configured"
    /\ InstagramMissing =>
          /\ instagram_client = NoHandle
          /\ ~instagram_session_initialized
          /\ \A r \in Slots : PlatformOf(r) = "instagram" /\ EnsureOver(r) =>
                /\ req[r].pc = "done" /\ req[r].status = 503
                /\ req[r].nclients = 0 /\ req[r].tiers = <<>>
                /\ req[r].upstream = <<>>
                /\ instagram_session_error = "Instagram credentials not configured"

\* a user name without a password (and no session id) was refused with 503
C4_Witness ==
    \E r \in Slots :
        /\ req[r].pc = "done" /\ req[r].status = 503
        /\ PlatformOf(r) = "instagram"
        /\ InstagramMissing
        /\ INSTAGRAM_USERNAME = "user"
        /\ instagram_session_error = "Instagram credentials not configured"

TierOf(t) == t[1]
OutcomeOf(t) == t[2]

\* tier k was available to the ensure call of request r (the session file
\* is looked for as it was when the call began)
TierAvailable(r, k) ==
    IF k = 1 THEN INSTAGRAM_SESSION_ID \notin {None, ""}
    ELSE IF k = 2 THEN req[r].file_at_call
    ELSE INSTAGRAM_USERNAME \notin {None, ""} /\ INSTAGRAM_PASSWORD \notin {None, ""}

\* C5: within one ensure_instagram_session call the tiers are attempted in
\* the order 1, 2, 3, each at most once, a tier only if it is available and
\* every earlier attempted tier failed (no available earlier tier is skipped);
\* the first success ends the call with initialized = true.
C5_TierOrder ==
    \A r \in Slots : PlatformOf(r) = "instagram" =>
        LET T == req[r].tiers
        IN  /\ \A i \in 1..Len(T) :
                 /\ TierOf(T[i]) \in 1..3
                 /\ TierAvailable(r, TierOf(T[i]))
                 /\ \A j \in 1..(i - 1) :
                       /\ TierOf(T[j]) < TierOf(T[i])
                       /\ OutcomeOf(T[j]) # "ok"
                 /\ \A k \in 1..(TierOf(T[i]) - 1) :
                       TierAvailable(r, k) => \E j \in 1..(i - 1) : TierOf(T[j]) = k
            /\ T # <<>> /\ OutcomeOf(T[Len(T)]) = "ok" =>
                 /\ instagram_session_initialized
                 /\ req[r].pc \in {"ensured", "done"}
                 /\ req[r].pc = "done" => req[r].status = 200

\* the session id and the saved session failed, the password login succeeded
C5_Witness ==
    \E r \in Slots :
        /\ PlatformOf(r) = "instagram"
        /\ Len(req[r].tiers) = 3
        /\ req[r].tiers[3] = <<3, "ok">>
        /\ instagram_session_initialized

\* an ensure_instagram_session call that attempted a login has failed
LoginFailed(r) ==
    /\ PlatformOf(r) = "instagram"
    /\ req[r].ensure = "login"
    /\ req[r].pc = "done"
    /\ req[r].status # 200

Mapped(r, status, error) ==
    /\ req[r].status = status
    /\ instagram_session_error = error

MappedAs(r, kind) ==
    IF kind = "TwoFactorRequired"
    THEN Mapped(r, 503, "Two-factor authentication required")
    ELSE IF kind = "ChallengeRequired"
    THEN Mapped(r, 503, "Challenge required (suspicious login detected)")
    ELSE Mapped(r, 429, "Rate limited - please wait")

\* C6 as stated: whichever tier's login attempt raised a known exception
\* kind, a call that ends in failure answers with that kind's mapping.
C6_AnyTierMapped ==
    \A r \in Slots : LoginFailed(r) =>
        \A i \in 1..Len(req[r].tiers) :
            OutcomeOf(req[r].tiers[i]) \in {"TwoFactorRequired", "ChallengeRequired",
                                            "PleaseWaitFewMinutes"}
               => MappedAs(r, OutcomeOf(req[r].tiers[i]))

\* C6 amended: only the username/password login (tier 3) is mapped: a known
\* kind raised there answers with its mapping (two-factor 503, challenge 503,
\* rate-limited 429), any other exception there answers 503 carrying its
\* message; exceptions of tiers 1 and 2 are absorbed by the fallback, and a
\* call left with no login method answers 503 "No valid login method
\* available".
C6_Tier3Mapped ==
    \A r \in Slots : LoginFailed(r) =>
        LET T == req[r].tiers
            last == IF T = <<>> THEN <<0, "none">> ELSE T[Len(T)]
        IN  IF TierOf(last) = 3
            THEN IF OutcomeOf(last) \in {"TwoFactorRequired", "ChallengeRequired",
                                         "PleaseWaitFewMinutes"}
                 THEN MappedAs(r, OutcomeOf(last))
                 ELSE /\ Mapped(r, 503, "login failed")
                      /\ req[r].detail = <<"Failed to login to Instagram: ", "login failed">>
            ELSE /\ Mapped(r, 503, "No valid login method available")
                 /\ req[r].detail = <<"Failed to login to Instagram: ",
                                      "No valid login method available">>

\* a rate-limited password login was answered 429
C6_Witness ==
    \E r \in Slots :
        /\ LoginFailed(r)
        /\ req[r].status = 429
        /\ req[r].tiers[Len(req[r].tiers)] = <<3, "PleaseWaitFewMinutes">>

PaceReturned(r) == req[r].pace.end > 0

\* C7 (pacing enabled, requests one after another): a pacing call that starts
\* less than MIN_REQUEST_DELAY after the platform's last recorded call sleeps
\* for a duration in [MIN_REQUEST_DELAY, MAX_REQUEST_DELAY] and returns no
\* earlier; one that starts at least MIN_REQUEST_DELAY after it returns at
\* once; the time it records is at least MIN_REQUEST_DELAY after the one it
\* replaces.
C7_Pacing ==
    \A r \in Slots :
        LET c == req[r].pace
            elapsed == c.start - c.prev
        IN  /\ req[r].pc = "pace_sleep" =>
                 /\ elapsed < MIN_REQUEST_DELAY
                 /\ c.delay >= MIN_REQUEST_DELAY /\ c.delay <= MAX_REQUEST_DELAY
                 /\ req[r].wake = c.start + c.delay
            /\ PaceReturned(r) =>
                 /\ elapsed < MIN_REQUEST_DELAY =>
                       /\ c.delay >= MIN_REQUEST_DELAY /\ c.delay <= MAX_REQUEST_DELAY
                       /\ c.end >= c.start + c.delay
                       /\ c.end - c.start >= MIN_REQUEST_DELAY - elapsed
                 /\ elapsed >= MIN_REQUEST_DELAY => c.delay = 0 /\ c.end = c.start
                 /\ LastRequestTime(PlatformOf(r)) - c.over >= MIN_REQUEST_DELAY

\* a call that came too early after an earlier recorded call was delayed and
\* has returned
C7_Witness ==
    \E r \in Slots :
        /\ PaceReturned(r)
        /\ req[r].pace.delay > 0
        /\ req[r].pace.over > 0

PaceReturns(r) ==
    /\ req[r].pc \in {"pace", "pace_sleep"}
    /\ req'[r].pc = req[r].ret

\* C8: with pacing enabled, the step in which a pacing call returns sets the
\* platform's last-call time to the current time, delayed or not, and leaves
\* the other platform's last-call time unchanged.
C8_StampOnReturn ==
    [][\A r \in Slots :
          ENABLE_ANTI_DETECTION /\ PaceReturns(r) =>
             IF PlatformOf(r) = "tiktok"
             THEN /\ last_tiktok_request_time' = now
                  /\ UNCHANGED last_instagram_request_time
             ELSE /\ last_instagram_request_time' = now
                  /\ UNCHANGED last_tiktok_request_time]_vars

\* a delayed call has returned and stamped its finishing time, later than its
\* start, while the other platform has a stamp of its own
C8_Witness ==
    \E r \in Slots :
        /\ PaceReturned(r)
        /\ req[r].pace.end > req[r].pace.start
        /\ LastRequestTime(PlatformOf(r)) = req[r].pace.end
        /\ last_tiktok_request_time > 0
        /\ last_instagram_request_time > 0
        /\ last_tiktok_request_time # last_instagram_request_time

\* C9: with the anti-detection toggle off no pacing call sleeps and no
\* last-call time is ever written.
C9_ToggleOff ==
    ~ENABLE_ANTI_DETECTION =>
        /\ last_tiktok_request_time = 0
        /\ last_instagram_request_time = 0
        /\ \A r \in Slots : req[r].pc # "pace_sleep" /\ req[r].pace = NoPace

\* with the toggle off, a second request's pacing call has returned
C9_Witness ==
    /\ ~ENABLE_ANTI_DETECTION
    /\ started = 2
    /\ \E r \in Slots : req[r].pc \in {"call", "fetch"}

PurelyNumeric(s) == s # <<>> /\ s \in Seq(Digits)

ResolverCalls(r) ==
    {i \in 1..Len(req[r].upstream) : req[r].upstream[i][1] = "media_pk_from_code"}

\* C10: in a media lookup that reaches the identifier resolution, a purely
\* numeric identifier is the primary key and the resolver is never called; a
\* non-numeric identifier is resolved by exactly one resolver call, made
\* first and on the identifier, and every later upstream call of the request
\* is made with the resolver's result.
C10_IdentifierResolution ==
    \A r \in Slots :
        req[r].endpoint \in InstagramLookups /\ req[r].media_id # <<>> =>
            LET U == req[r].upstream
            IN  IF PurelyNumeric(req[r].media_id)
                THEN /\ req[r].resolver_calls = 0
                     /\ ResolverCalls(r) = {}
                     /\ \A i \in 1..Len(U) : U[i][2] = req[r].media_id
                ELSE /\ req[r].resolver_calls = 1
                     /\ ResolverCalls(r) = {1}
                     /\ U[1][2] = req[r].media_id
                     /\ \A i \in 2..Len(U) :
                           req[r].resolved # <<>> /\ U[i][2] = req[r].resolved

\* a short code was resolved and both retrieval calls used the resolved key
C10_Witness ==
    \E r \in Slots :
        /\ req[r].endpoint = "instagram_post"
        /\ req[r].media_id = <<"a", "1">>
        /\ Len(req[r].upstream) = 3
        /\ req[r].upstream[3][2] = req[r].resolved
        /\ req[r].pc = "done"

\* the calls that only resolve an identifier (no retrieval)
ResolverNames == {"media_pk_from_code", "media_pk_from_url", "user_id_from_username"}

\* the retrieval calls (primary and fallback) request r has made
RetrievalCalls(r) ==
    {i \in 1..Len(req[r].upstream) : req[r].upstream[i][1] \notin ResolverNames}

AllRetrievalsFailed(r) ==
    /\ RetrievalCalls(r) # {}
    /\ \A i \in RetrievalCalls(r) : req[r].upstream[i][3] = "error"

\* C11: a request all of whose retrieval calls (the primary call and its
\* fallback) failed ends with an error response, never with a success.
C11_FailuresSurfaced ==
    \A r \in Slots :
        req[r].pc = "done" /\ AllRetrievalsFailed(r) => req[r].status # 200

\* the request went through key check, ensure and pacing, and its handler
\* ended by raising
DataPhaseFailed(r) ==
    /\ req[r].pc = "done"
    /\ req[r].steps = <<"key", "ensure", "pace">>
    /\ req[r].status # 200

\* the request's ensure call raised: the handler ended there
EnsureRaised(r) ==
    /\ req[r].pc = "done"
    /\ req[r].steps = <<"key">>

HandlerPrefix(e) ==
    IF e \in TikTokVideoReads THEN "Error fetching TikTok video: "
    ELSE LookupDetail(e)

\* C12 as stated: in every handler an exception that ends the handler after
\* session and pacing is answered 500 with the upstream message in the
\* detail; an error raised by the session manager keeps its status (503, or
\* 429) and is never rewritten to 500.
C12_AlwaysTranslatedTo500 ==
    \A r \in Slots :
        /\ DataPhaseFailed(r) =>
              /\ req[r].status = 500
              /\ req[r].detail[1] = HandlerPrefix(req[r].endpoint)
              /\ req[r].detail[2] # ""
        /\ EnsureRaised(r) => req[r].status \in {503, 429}

\* C12 amended: as stated, except that in get_tiktok_video_by_url a ValueError
\* is answered 400 with the exception's message as the detail; every other
\* exception that ends a handler after session and pacing is answered 500
\* with the upstream message; a session-manager error keeps its status (503,
\* or 429 for the Instagram rate limit).
C12_ErrorTranslation ==
    \A r \in Slots :
        /\ DataPhaseFailed(r) =>
              IF req[r].endpoint = "tiktok_video_url" /\ req[r].detail[2] = "ValueError"
              THEN req[r].status = 400 /\ req[r].detail[1] = ""
              ELSE /\ req[r].status = 500
                   /\ req[r].detail[1] = HandlerPrefix(req[r].endpoint)
                   /\ req[r].detail[2] # ""
        /\ EnsureRaised(r) =>
              /\ req[r].status \in {503, 429}
              /\ req[r].status = 429 => PlatformOf(r) = "instagram"

\* a ValueError raised by the upstream call of the by-id handler was answered
\* 500, while the session manager's 429 had reached another caller unchanged
C12_Witness ==
    /\ \E r \in Slots :
          /\ DataPhaseFailed(r)
          /\ req[r].endpoint = "tiktok_video"
          /\ req[r].detail = <<"Error fetching TikTok video: ", "ValueError">>
          /\ req[r].status = 500
    /\ instagram_session_error = "Rate limited - please wait"

ByUrlEndpoints == {"tiktok_video_url", "instagram_post_url"}

\* C13: a by-URL request whose URL names no item is answered 400.
C13_MalformedUrlIs400 ==
    \A r \in Slots :
        /\ req[r].pc = "done"
        /\ req[r].endpoint \in ByUrlEndpoints
        /\ req[r].url = MalformedUrl
        => req[r].status = 400

\* a normalizer has been called on the payload
Parsed == record # NotParsed

\* the five normalizers that take an upstream dictionary
DictNormalizers ==
    {"parse_tiktok_video_data", "parse_tiktok_user_data", "parse_tiktok_comment",
     "parse_instagram_media_dict", "parse_instagram_comment_dict"}

\* the stat `key` of the video payload is absent or null (at any level)
StatMissing(key) ==
    \/ payload.stats.t # "dict"
    \/ payload.stats.f[key].t \in {"absent", "null"}

VideoStatOf(out, key) ==
    IF key = "playCount" THEN out.views
    ELSE IF key = "diggCount" THEN out.likes
    ELSE IF key = "commentCount" THEN out.comments
    ELSE out.shares

\* C14: whatever the payload (fields absent, null or of an unexpected shape),
\* a dictionary normalizer returns a record and does not raise, a missing
\* numeric field is 0 and a missing optional string is empty.
C14_NormalizersNeverRaise ==
    Parsed /\ parser \in DictNormalizers =>
        /\ record.out.raised = ""
        /\ parser = "parse_tiktok_video_data" =>
              /\ \A k \in StatKeys : StatMissing(k) => VideoStatOf(record.out, k) = 0
              /\ payload.desc.t \in {"absent", "null"} => record.out.description = ""

\* the timestamp value is absent, null or the integer 0: the values for which
\* `if raw` is false
EpochZeroOrAbsent(v) == v \in {Absent, Null, IntV(0)}

\* ... or the epoch 0 written as a numeric string, which int() accepts
EpochZeroAnyForm(v) ==
    \/ EpochZeroOrAbsent(v)
    \/ IntOf(v).exc = "" /\ IntOf(v).n = 0

OptionalTimestampNormalizers ==
    {"parse_tiktok_comment", "parse_instagram_media_dict",
     "parse_instagram_comment_dict"}

\* the payload of an optional-timestamp normalizer gives no creation time:
\* both keys the normalizer reads are zero(_)
NoCreationTime(zero(_)) ==
    IF parser = "parse_tiktok_comment"
    THEN zero(payload.createTime) /\ zero(payload.create_time)
    ELSE IF parser = "parse_instagram_media_dict"
    THEN zero(payload.taken_at) /\ zero(payload.taken_at_timestamp)
    ELSE zero(payload.created_at) /\ zero(payload.created_at_utc)

StatGiven(key) ==
    IF payload.stats.t = "dict" /\ payload.stats.f[key].t # "absent"
    THEN payload.stats.f[key]
    ELSE IntV(0)

\* C16: parse_tiktok_video_data of any video dictionary yields a record whose
\* views, likes, comments and shares are stats.playCount, diggCount,
\* commentCount and shareCount when present and 0 when absent, whose id and
\* description are the dictionary's id and desc, whose author username is
\* author.uniqueId, and whose create_time_iso is the ISO form of the epoch in
\* createTime (an integer or a numeric string).
C16_VideoFields ==
    Parsed /\ parser = "parse_tiktok_video_data" =>
        /\ record.out.raised = ""
        /\ \A k \in StatKeys : VideoStatOf(record.out, k) = StatGiven(k).n
        /\ payload.id.t = "str" => record.out.id = payload.id.s
        /\ payload.desc.t = "str" => record.out.description = payload.desc.s
        /\ payload.author.t = "dict" /\ payload.author.f.uniqueId.t = "str"
              => record.out.author_username = payload.author.f.uniqueId.s
        /\ payload.createTime = IntV(5) \/ payload.createTime = StrV("5")
              => record.out.create_time_iso = "1970-01-01T00:00:05"

\* ------------------------------------------------------------------ C17
Rejected(q) == q.pc = "done" /\ q.status \in {401, 403}

\* the step in which request r is answered from pc "arrived": the key check
\* rejecting it, or the health handler
AnsweredOnArrival(r) == req[r].pc = "arrived" /\ req'[r].pc = "done"

SessionAndPacing == <<tiktok, instagram, pacing, session_file>>

\* C17: a request that has issued a platform call has gone through key check,
\* session ensure and pacing in that order and its platform's session is
\* initialized (a successful call ends in the normalized 200 answer); every
\* request of a protected route that has left the key check either passed it
\* first or was rejected; the step that rejects a request leaves sessions,
\* pacing timestamps and the session file unchanged and the request has made
\* no login and no call; the health handler runs no key check and changes no
\* session state.
C17_StepOrder ==
    [][\A r \in Slots :
         LET q == req'[r]
         IN  /\ q.upstream # <<>> =>
                   /\ q.steps = <<"key", "ensure", "pace">>
                   /\ \A p \in {"tiktok", "instagram"} :
                         p = Platform(q.endpoint) => Initialized(p)'
             /\ q.pc \notin {"idle", "arrived"} /\ q.endpoint # "health" =>
                   \/ Rejected(q) /\ q.steps = <<>>
                   \/ q.steps # <<>> /\ q.steps[1] = "key"
             /\ AnsweredOnArrival(r) =>
                   /\ UNCHANGED SessionAndPacing
                   /\ q.steps = <<>> /\ q.nclients = 0 /\ q.tiers = <<>>
                   /\ q.upstream = <<>> /\ q.ensure = "none"
                   /\ q.endpoint = "health" <=> ~Rejected(q)
             /\ q.endpoint = "health" /\ q.pc # "idle" =>
                   q.pc \in {"arrived", "done"} /\ q.steps = <<>>]_vars

\* one request has issued its platform call after the three steps while
\* another one was rejected by the key check
C17_Witness ==
    \E r, s \in Slots :
        /\ req[r].upstream # <<>>
        /\ req[r].steps = <<"key", "ensure", "pace">>
        /\ Rejected(req[s])

\* ------------------------------------------------------------------ C18
\* request r is inside the sleep of a pacing delay
InPacingDelay(r) == req[r].pc = "pace_sleep"

\* C18: while a request of either platform waits in a pacing delay it does
\* not hold the event loop, so that another request of the process can be
\* taken up, run and be answered meanwhile.
C18_PacingDoesNotBlock ==
    \A r \in Slots : InPacingDelay(r) => running # r

\* ------------------------------------------------------------------ C19
\* request r is inside the client-creation path of ensure_tiktok_session:
\* TikTokApi() has run and create_sessions has not yet returned
CreatingTikTokClient(r) == req[r].pc \in {"tt_sleep", "tt_create"}

\* C19: among concurrent TikTok requests arriving while the session is
\* uninitialized only one runs the client-creation path: the shared handle is
\* never assigned while another request's creation is under way (a new
\* attempt is made only after a creation that failed).
C19_SingleTikTokHandle ==
    [][tiktok_api' # tiktok_api =>
          \A r \in Slots : ~CreatingTikTokClient(r)]_vars

\* ------------------------------------------------------------------ C20
Platforms == {"tiktok", "instagram"}

\* the platform's shared client handle
Handle_(p) == IF p = "tiktok" THEN tiktok_api ELSE instagram_client

\* a request starts a login on platform p in this step: it creates a client
\* or begins to await create_sessions
LoginStarts(p) ==
    \/ Handle_(p)' # Handle_(p)
    \/ /\ p = "tiktok"
       /\ \E r \in Slots : req[r].pc # "tt_create" /\ req'[r].pc = "tt_create"

\* the part of C20 that holds: the flag never goes back to false and the
\* client handle of an initialized platform is never replaced
SessionMonotone ==
    [][\A p \in Platforms :
          Initialized(p) => Initialized(p)' /\ Handle_(p)' = Handle_(p)]_vars

\* C20: once a platform's initialized flag is true, no step of any request
\* (a failing upstream call included) makes it false again, and no step tears
\* the session down or starts a login on that platform.
C20_SessionMonotone ==
    [][\A p \in Platforms :
          Initialized(p) => Initialized(p)' /\ ~LoginStarts(p)]_vars

\* ------------------------------------------------------------------ C21
\* this step is request r's login_by_sessionid (tier 1) or login (tier 3)
\* returning: the ensure call goes from the login to its return
LoginSucceeds(r) ==
    /\ req[r].pc \in {"ig_tier1", "ig_login"}
    /\ req'[r].pc = "ensured"

\* C21: a step overwrites the saved Instagram session blob exactly when it is
\* a tier-1 or tier-3 login succeeding, and then the blob is that client's
\* settings; every other step (a failed login, a tier-2 load, a tier-2
\* validation that succeeds or fails) leaves the blob as it was, a blob that
\* failed validation included.
C21_BlobOverwrittenOnLogin ==
    [][/\ session_file' # session_file <=> \E r \in Slots : LoginSucceeds(r)
       /\ session_file' # session_file =>
             session_file' = <<"settings">> \o instagram_client]_vars

\* the saved blob failed validation, was kept, and the tier-3 login that
\* followed replaced it
C21_Witness ==
    \E r \in Slots :
        /\ req[r].pc = "ensured"
        /\ \E i \in 1..Len(req[r].tiers) :
              req[r].tiers[i][1] = 2 /\ req[r].tiers[i][2] # "ok"
        /\ req[r].tiers[Len(req[r].tiers)] = <<3, "ok">>
        /\ req[r].file_at_call
        /\ session_file \notin {NoBlob, SavedBlob}

\* ------------------------------------------------------------------ C22
\* the handlers that have a primary and a fallback retrieval strategy
MultiStrategy ==
    {"instagram_user", "instagram_user_posts", "instagram_post",
     "instagram_post_url", "instagram_post_comments"}

\* the retrieval calls of request r in the order they were issued
RetrievalSeq(r) ==
    SelectSeq(req[r].upstream, LAMBDA c : c[1] \notin ResolverNames)

C28_HealthAgreesWithEnsure ==
    \A r \in Slots :
        req[r].pc = "done" /\ req[r].endpoint = "health" =>
            /\ req[r].body[1].tiktok.ms_token_configured
                  = TikTokConfigured(MS_TOKEN)
            /\ req[r].body[1].instagram.credentials_configured
                  = InstagramConfigured(has_session_id, has_user_pass)

\* ------------------------------------------------------------------ C27
\* the value the payload gives for the i-th probe of the view count
Probe(i) ==
    IF i <= Len(ViewKeys) THEN payload[ViewKeys[i]]
    ELSE IF payload.clips_metadata.t = "dict"
    THEN payload.clips_metadata.f.play_count
    ELSE Absent

Probes == 1..(Len(ViewKeys) + 1)

\* C27: for every media dictionary, with or without a clips_metadata
\* dictionary, views is the first non-empty value among play_count,
\* ig_play_count, video_play_count, view_count, video_view_count,
\* fb_play_count and clips_metadata.play_count in that order, and null only
\* when all of them are absent or empty.
C27_ViewsPriority ==
    Parsed /\ parser = "media_views" =>
        /\ \A i \in Probes :
              IsTruthy(Probe(i)) /\ (\A j \in 1..(i - 1) : ~IsTruthy(Probe(j)))
                  => record.out.views = Probe(i)
        /\ record.out.views = Null => \A i \in Probes : ~IsTruthy(Probe(i))

\* ------------------------------------------------------------------ C23
CollectionResponses == {"instagram_comments_response", "tiktok_comments_response"}

\* C23: in a successful collection response the count is the number of items
\* of the returned list; in an Instagram comments response has_more is true
\* whenever next_cursor is non-empty, and on the primary (chunk) path has_more
\* is true exactly when next_cursor is non-empty.
C23_CountAndHasMore ==
    Parsed /\ parser \in CollectionResponses /\ record.out.raised = "" =>
        /\ record.out.count = Len(record.out.comments)
        /\ parser = "instagram_comments_response" =>
              /\ IsTruthy(record.out.next_cursor) => IsTruthy(record.out.has_more)
              /\ record.out.path = "chunk" =>
                    (IsTruthy(record.out.has_more) <=> IsTruthy(record.out.next_cursor))

\* the fallback path returned one of two upstream comments (the other could
\* not be normalized) with a cursor and has_more true
C23_Witness ==
    /\ Parsed /\ parser = "instagram_comments_response"
    /\ record.out.path = "raw"
    /\ record.out.count = 1 /\ Len(payload.raw.comments) = 2
    /\ IsTruthy(record.out.next_cursor) /\ IsTruthy(record.out.has_more)

\* ------------------------------------------------------------------ C25
\* C25: in every reachable state, under any interleaving of ensure calls, a
\* platform whose initialized flag is true has no recorded session error.
C25_InitializedMeansNoError ==
    \A p \in Platforms : Initialized(p) => SessionError(p) = None

\* ------------------------------------------------------------------ C24
\* this step issues request r's TikTok data call (on the shared handle)
IssuesTikTokCall(r) == req[r].pc = "call" /\ req'[r].pc = "tt_info"

\* C24: under any interleaving of TikTok requests, whenever the initialized
\* flag is true the shared tiktok_api handle is a client whose create_sessions
\* has completed successfully, and a data call is issued only on such a
\* handle (never on one whose session creation is in progress or has failed).
C24_HandleHasSession ==
    [][/\ tiktok_session_initialized' => tiktok_api' \in tiktok_sessions'
       /\ \A r \in Slots : IssuesTikTokCall(r) => tiktok_api \in tiktok_sessions]_vars

\* ------------------------------------------------------------------ C26
\* this step is a login attempt of request r's ensure call returning or
\* raising (login_by_sessionid, the validation of the loaded session, or
\* login): the record of its tiers grows
LoginAttempt(r) ==
    /\ PlatformOf(r) = "instagram"
    /\ Len(req'[r].tiers) > Len(req[r].tiers)

\* C26: when an Instagram proxy is configured, every login attempt of
\* ensure_instagram_session, in any tier, is made by a client that has the
\* proxy applied, the fresh client created after the saved session failed
\* validation included.
C26_LoginThroughProxy ==
    [][\A r \in Slots :
          Truthy(INSTAGRAM_PROXY) /\ LoginAttempt(r) =>
              ProxyOf(instagram_client) = INSTAGRAM_PROXY]_vars
====
